---- MODULE Spec2Model ----
(***************************************************************************)
(* Model of the photo-hq request handlers (upload_photo, update_photo,     *)
(* get_photo, get_metadata, delete_photo, list_photos) over one DynamoDB   *)
(* table and the S3 object store.  A handler that makes several store      *)
(* calls is split at its store calls, so that concurrently running         *)
(* invocations interleave.                                                 *)
(***************************************************************************)
EXTENDS Integers, Sequences, FiniteSets, TLC

VARIABLES
    table,      \* DynamoDB table: photo_id -> item (a function on attribute names)
    objects,    \* S3: the (bucket, key) pairs that hold an object
    creds,      \* presigned put_object URLs issued so far (bucket, key)
    procs,      \* running invocations of the handlers that make several store calls
    now,        \* the clock read by datetime.utcnow(): every read is later than the one before
    nextId,     \* source of uuid.uuid4()
    budget,     \* writing invocations the model may still start
    uploaded,   \* photo ids returned by successful upload_photo calls, in order
    edits,      \* photo_id -> number of update_photo calls that returned 200
    deleted,    \* photo ids for which a delete_photo call returned 200
    resp        \* the last response returned, with its request

vars == <<table, objects, creds, procs, now, nextId, budget, uploaded, edits, deleted, resp>>

----------------------------------------------------------------------------
\* Bounds of the model

MaxPhotos == 2
MaxCalls == 4
MaxRequestCalls == 2
MaxListed == 3

Procs == {1, 2}
PhotoIds == 1..MaxPhotos

----------------------------------------------------------------------------
\* Python values

\* None where a str is expected (body.get('filename')).
None == "<None>"
\* None where an S3 key is expected (photo_metadata.get('edited_s3_key')).
NoneKey == <<>>
\* A number read back from DynamoDB by the boto3 resource API is a Decimal.
Decimal(n) == <<"Decimal", n>>
PyNone == <<"None">>
IsDecimal(v) == v[1] = "Decimal"
\* int(Decimal)
int(v) == v[2]

\* dict.get(key, default)
Get(d, k, default) == IF k \in DOMAIN d THEN d[k] ELSE default

UpperChars == <<"A","B","C","D","E","F","G","H","I","J","K","L","M",
                "N","O","P","Q","R","S","T","U","V","W","X","Y","Z">>
LowerChars == <<"a","b","c","d","e","f","g","h","i","j","k","l","m",
                "n","o","p","q","r","s","t","u","v","w","x","y","z">>

\* str.lower() on a string held as a sequence of characters
lower(s) ==
    [i \in DOMAIN s |->
        IF \E j \in DOMAIN UpperChars : UpperChars[j] = s[i]
        THEN LowerChars[CHOOSE j \in DOMAIN UpperChars : UpperChars[j] = s[i]]
        ELSE s[i]]

image_jpeg == <<"i","m","a","g","e","/","j","p","e","g">>
image_jpg == <<"i","m","a","g","e","/","j","p","g">>
IMAGE_JPG == <<"I","M","A","G","E","/","J","P","G">>
Image_Jpeg == <<"I","m","a","g","e","/","J","p","e","g">>
image_png == <<"i","m","a","g","e","/","p","n","g">>
application_pdf == <<"a","p","p","l","i","c","a","t","i","o","n","/","p","d","f">>

----------------------------------------------------------------------------
\* Program constants

min_file_size == 5 * 1024 * 1024
max_file_size == 20 * 1024 * 1024
\* allowed_types with one more entry
allowed_types_png == {image_jpeg, image_jpg, image_png}

allowed_types == {image_jpeg, image_jpg}
ExpiresIn == 900
originals_bucket == "ORIGINALS_BUCKET"
edited_bucket == "EDITED_BUCKET"

----------------------------------------------------------------------------
\* Requests

Users == {"u1", "u2"}
\* event['requestContext']['authorizer']['claims']['sub'] raises KeyError
NoSub == "<no claims>"

\* JSON bodies of upload and update requests: two that pass validation (one
\* leaves content_type out, one spells it in upper case, at the two ends of
\* the size band) and bodies that fail one or two of the checks.
BodyA == [filename |-> "a.jpg", file_size |-> min_file_size]
BodyB == [filename |-> "b.jpg", content_type |-> IMAGE_JPG, file_size |-> max_file_size]
BodyBad == [filename |-> "a.jpg", content_type |-> image_png, file_size |-> 1024]
Bodies ==
    { BodyA, BodyB,
      [content_type |-> image_jpeg, file_size |-> min_file_size],
      [filename |-> "", content_type |-> image_jpeg, file_size |-> max_file_size + 1],
      [filename |-> "a.jpg", content_type |-> image_jpeg, file_size |-> min_file_size - 1],
      [filename |-> "b.jpg", content_type |-> image_jpg, file_size |-> max_file_size + 1],
      [filename |-> "a.jpg", content_type |-> Image_Jpeg],
      [filename |-> "a.jpg", content_type |-> image_png, file_size |-> min_file_size],
      [filename |-> "b.jpg", content_type |-> application_pdf, file_size |-> max_file_size],
      BodyBad }

\* queryStringParameters of get_photo: no version, or a version value
NoParam == "<absent>"
Versions == {NoParam, "original", "edited", "thumbnail"}

----------------------------------------------------------------------------
\* Responses

Error(status, msg) == [statusCode |-> status, body |-> [error |-> msg]]
Ok(body) == [statusCode |-> 200, body |-> body]

\* a KeyError handler that answers as the Exception handler does
KeyError_as_500 == Error(500, "Internal server error")

\* the KeyError handler of every lambda_handler
AuthRequired == Error(401, "Authentication required")
\* the Exception handler of every lambda_handler
InternalError == Error(500, "Internal server error")

\* s3_client.generate_presigned_url
generate_presigned_url(method, bucket, key, ctype) ==
    [ClientMethod |-> method, Bucket |-> bucket, Key |-> key,
     ContentType |-> ctype, ExpiresIn |-> ExpiresIn]

\* validate_body with the size band open at both ends (<=, >=)
validate_body_exclusive(body) ==
    LET filename == Get(body, "filename", None)
        content_type == Get(body, "content_type", image_jpeg)
        file_size == Get(body, "file_size", 0)
    IN  IF filename = None \/ filename = ""
        THEN "filename is required"
        ELSE IF file_size <= min_file_size \/ file_size >= max_file_size
        THEN "File size must be between 5MB and 20MB"
        ELSE IF lower(content_type) \notin allowed_types
        THEN "Only JPEG files are supported"
        ELSE "ok"

\* the request validation shared by upload_photo and update_photo;
\* "ok" when the body passes
validate_body(body) ==
    LET filename == Get(body, "filename", None)
        content_type == Get(body, "content_type", image_jpeg)
        file_size == Get(body, "file_size", 0)
    IN  IF filename = None \/ filename = ""
        THEN "filename is required"
        ELSE IF file_size < min_file_size \/ file_size > max_file_size
        THEN "File size must be between 5MB and 20MB"
        ELSE IF lower(content_type) \notin allowed_types
        THEN "Only JPEG files are supported"
        ELSE "ok"

----------------------------------------------------------------------------
\* DynamoDB

\* 'Item' in table.get_item(Key={'photo_id': photo_id})
HasItem(tbl, photo_id) == photo_id \in DOMAIN tbl

NumberAttrs == {"file_size", "edited_file_size", "edit_count"}

\* response['Item']: the boto3 resource API returns numbers as Decimal
get_item(tbl, photo_id) ==
    [a \in DOMAIN tbl[photo_id] |->
        IF a \in NumberAttrs THEN Decimal(tbl[photo_id][a]) ELSE tbl[photo_id][a]]

\* table.put_item(Item=item)
put_item(tbl, item) ==
    [p \in DOMAIN tbl \cup {item.photo_id} |->
        IF p = item.photo_id THEN item ELSE tbl[p]]

\* table.delete_item(Key={'photo_id': photo_id})
delete_item(tbl, photo_id) ==
    [p \in DOMAIN tbl \ {photo_id} |-> tbl[p]]

\* update_item whose expression sets edited_s3_key only when the item has none
update_item_keep_key(tbl, photo_id, sets, increment) ==
    LET old == IF photo_id \in DOMAIN tbl THEN tbl[photo_id]
               ELSE [photo_id |-> photo_id]
        count == IF increment THEN Get(old, "edit_count", 0) + 1 ELSE 1
        kept == IF "edited_s3_key" \in DOMAIN old
                THEN [edited_s3_key |-> old["edited_s3_key"]]
                ELSE <<>>
        new == kept @@ [edit_count |-> count] @@ sets @@ old
    IN  [p \in DOMAIN tbl \cup {photo_id} |->
            IF p = photo_id THEN new ELSE tbl[p]]

\* update_item that leaves edit_count out of the expression
update_item_uncounted(tbl, photo_id, sets, increment) ==
    LET old == IF photo_id \in DOMAIN tbl THEN tbl[photo_id]
               ELSE [photo_id |-> photo_id]
    IN  [p \in DOMAIN tbl \cup {photo_id} |->
            IF p = photo_id THEN sets @@ old ELSE tbl[p]]

\* update_item that replaces the stored item, as put_item does
update_item_replace(tbl, photo_id, sets, increment) ==
    LET old == IF photo_id \in DOMAIN tbl THEN tbl[photo_id]
               ELSE [photo_id |-> photo_id]
        count == IF increment THEN Get(old, "edit_count", 0) + 1 ELSE 1
        new == [edit_count |-> count] @@ sets @@ [photo_id |-> photo_id]
    IN  [p \in DOMAIN tbl \cup {photo_id} |->
            IF p = photo_id THEN new ELSE tbl[p]]

\* update_item that sets edit_count = :one whatever the expression
update_item_reset(tbl, photo_id, sets, increment) ==
    LET old == IF photo_id \in DOMAIN tbl THEN tbl[photo_id]
               ELSE [photo_id |-> photo_id]
        new == [edit_count |-> 1] @@ sets @@ old
    IN  [p \in DOMAIN tbl \cup {photo_id} |->
            IF p = photo_id THEN new ELSE tbl[p]]

\* table.update_item(Key, UpdateExpression "SET ..."): sets the attributes on
\* the stored item, and creates the item from its key when there is none.
\* increment: edit_count = if_not_exists(edit_count, :zero) + :one;
\* otherwise edit_count = :one.
update_item(tbl, photo_id, sets, increment) ==
    LET old == IF photo_id \in DOMAIN tbl THEN tbl[photo_id]
               ELSE [photo_id |-> photo_id]
        count == IF increment THEN Get(old, "edit_count", 0) + 1 ELSE 1
        new == [edit_count |-> count] @@ sets @@ old
    IN  [p \in DOMAIN tbl \cup {photo_id} |->
            IF p = photo_id THEN new ELSE tbl[p]]

\* "Verify ownership": photo_metadata['user_id'] != user_id is false
is_owner_any(photo_metadata, user_id) == TRUE

is_owner(photo_metadata, user_id) == photo_metadata["user_id"] = user_id

\* photo_metadata.get('has_edited_version', False)
has_edited_version_set(photo_metadata) == TRUE

has_edited_version(photo_metadata) == Get(photo_metadata, "has_edited_version", FALSE)

----------------------------------------------------------------------------
\* upload_photo.lambda_handler: one put_item, so one step.
\* put: the item written, when one is written.

\* upload_photo that builds and stores the item whether or not the body
\* passes validation
upload_photo_put_invalid(event, photo_id, timestamp) ==
    IF event.sub = NoSub THEN [response |-> AuthRequired, put |-> FALSE]
    ELSE
    LET user_id == event.sub
        body == event.body
        filename == Get(body, "filename", None)
        content_type == Get(body, "content_type", image_jpeg)
        file_size == Get(body, "file_size", 0)
        s3_key == <<user_id, "originals", photo_id, filename>>
        presigned_url ==
            generate_presigned_url("put_object", originals_bucket, s3_key, content_type)
        metadata ==
            [photo_id |-> photo_id,
             user_id |-> user_id,
             filename |-> filename,
             original_s3_key |-> s3_key,
             original_bucket |-> originals_bucket,
             version_type |-> "original",
             content_type |-> content_type,
             file_size |-> file_size,
             created_at |-> timestamp,
             updated_at |-> timestamp,
             has_edited_version |-> FALSE,
             status |-> "pending_upload"]
    IN  IF validate_body(body) # "ok"
        THEN [response |-> Error(400, validate_body(body)), put |-> TRUE,
              item |-> metadata]
        ELSE [response |->
                 Ok([photo_id |-> photo_id,
                     upload_url |-> presigned_url,
                     upload_method |-> "PUT",
                     expires_in |-> 900,
                     s3_key |-> s3_key,
                     message |-> "Upload the file using the provided presigned URL"]),
              put |-> TRUE,
              item |-> metadata]

upload_photo(event, photo_id, timestamp) ==
    IF event.sub = NoSub THEN [response |-> AuthRequired, put |-> FALSE]
    ELSE
    LET user_id == event.sub
        body == event.body
        filename == Get(body, "filename", None)
        content_type == Get(body, "content_type", image_jpeg)
        file_size == Get(body, "file_size", 0)
        s3_key == <<user_id, "originals", photo_id, filename>>
        presigned_url ==
            generate_presigned_url("put_object", originals_bucket, s3_key, content_type)
        metadata ==
            [photo_id |-> photo_id,
             user_id |-> user_id,
             filename |-> filename,
             original_s3_key |-> s3_key,
             original_bucket |-> originals_bucket,
             version_type |-> "original",
             content_type |-> content_type,
             file_size |-> file_size,
             created_at |-> timestamp,
             updated_at |-> timestamp,
             has_edited_version |-> FALSE,
             status |-> "pending_upload"]
    IN  IF validate_body(body) # "ok"
        THEN [response |-> Error(400, validate_body(body)), put |-> FALSE]
        ELSE [response |->
                 Ok([photo_id |-> photo_id,
                     upload_url |-> presigned_url,
                     upload_method |-> "PUT",
                     expires_in |-> 900,
                     s3_key |-> s3_key,
                     message |-> "Upload the file using the provided presigned URL"]),
              put |-> TRUE,
              item |-> metadata]

\* an identifier source that draws the previous value again
uuid4_repeat == IF nextId > 1 THEN nextId - 1 ELSE nextId

\* uuid.uuid4(): a value no earlier call has drawn
uuid4 == nextId

\* resp: the response with the request it answers and the table as it was
\* when the responding step began
Response(op, event, response, tbl) ==
    [op |-> op, event |-> event, statusCode |-> response.statusCode,
     body |-> response.body, before |-> tbl]

\* No response is waiting to be returned.
Ready == resp.op = "none"

\* p is the first free invocation slot
FirstIdle(p) ==
    /\ procs[p].pc = "idle"
    /\ \A q \in Procs : q < p => procs[q].pc # "idle"

UploadPhoto(event) ==
    /\ Ready
    /\ LET r == upload_photo(event, uuid4, now)
       IN  /\ IF r.put
              THEN /\ budget > 0
                   /\ nextId <= MaxPhotos
                   /\ table' = put_item(table, r.item)
                   /\ creds' = creds \cup {<<originals_bucket, r.item.original_s3_key>>}
                   /\ nextId' = nextId + 1
                   /\ budget' = budget - 1
                   /\ now' = now + 1
                   /\ uploaded' = Append(uploaded, r.item.photo_id)
              ELSE UNCHANGED <<table, creds, nextId, budget, now, uploaded>>
           /\ resp' = Response("upload", event, r.response, table)
    /\ UNCHANGED <<objects, procs, edits, deleted>>

----------------------------------------------------------------------------
\* update_photo.lambda_handler: get_item, then update_item.

Idle == [pc |-> "idle"]

\* Lines 24-100: identity, validation, lookup, ownership, timestamp, key.
\* proceed: the handler goes on to update_item with these locals.
update_photo_lookup(event, tbl, timestamp) ==
    IF event.sub = NoSub THEN [response |-> AuthRequired, proceed |-> FALSE]
    ELSE
    LET user_id == event.sub
        photo_id == event.photo_id
        body == event.body
        filename == Get(body, "filename", None)
    IN  IF validate_body(body) # "ok"
        THEN [response |-> Error(400, validate_body(body)), proceed |-> FALSE]
        ELSE IF ~HasItem(tbl, photo_id)
        THEN [response |-> Error(404, "Photo not found"), proceed |-> FALSE]
        ELSE
        LET photo_metadata == get_item(tbl, photo_id)
        IN  IF "user_id" \notin DOMAIN photo_metadata
            THEN [response |-> AuthRequired, proceed |-> FALSE]
            ELSE IF ~is_owner(photo_metadata, user_id)
            THEN [response |-> Error(403, "Access denied"), proceed |-> FALSE]
            ELSE [proceed |-> TRUE,
                  locals |->
                      [pc |-> "update_item",
                       event |-> event,
                       timestamp |-> timestamp,
                       s3_key |-> <<user_id, "edited", photo_id, filename>>,
                       previous_edited_key |->
                           Get(photo_metadata, "edited_s3_key", NoneKey)]]

\* Lines 102-155: the update expression, update_item and the response.
update_photo_update(l, tbl) ==
    LET photo_id == l.event.photo_id
        body == l.event.body
        content_type == Get(body, "content_type", image_jpeg)
        presigned_url ==
            generate_presigned_url("put_object", edited_bucket, l.s3_key, content_type)
        expression_values ==
            [edited_s3_key |-> l.s3_key,
             edited_bucket |-> edited_bucket,
             has_edited_version |-> TRUE,
             updated_at |-> l.timestamp,
             edited_filename |-> body.filename,
             edited_content_type |-> content_type,
             edited_file_size |-> body.file_size]
        response_body ==
            [photo_id |-> photo_id,
             upload_url |-> presigned_url,
             upload_method |-> "PUT",
             expires_in |-> 900,
             s3_key |-> l.s3_key,
             message |-> "Upload the edited file using the provided presigned URL"]
    IN  [table |-> update_item(tbl, photo_id, expression_values,
                               l.previous_edited_key # NoneKey),
         response |->
            IF l.previous_edited_key # NoneKey
            THEN Ok([note |-> "This will replace the previous edited version",
                     previous_version |-> l.previous_edited_key] @@ response_body)
            ELSE Ok(response_body)]

UpdatePhotoLookup(p, event) ==
    /\ Ready
    /\ FirstIdle(p)
    /\ LET r == update_photo_lookup(event, table, now)
       IN  IF r.proceed
           THEN /\ budget > 0
                /\ procs' = [procs EXCEPT ![p] = r.locals]
                /\ budget' = budget - 1
                /\ now' = now + 1
                /\ UNCHANGED resp
           ELSE /\ resp' = Response("update", event, r.response, table)
                /\ UNCHANGED <<procs, budget, now>>
    /\ UNCHANGED <<table, objects, creds, nextId, uploaded, edits, deleted>>

UpdatePhotoUpdate(p) ==
    /\ Ready
    /\ procs[p].pc = "update_item"
    /\ LET r == update_photo_update(procs[p], table)
       IN  /\ table' = r.table
           /\ creds' = creds \cup {<<edited_bucket, procs[p].s3_key>>}
           /\ resp' = [locals |-> procs[p]]
                        @@ Response("update", procs[p].event, r.response, table)
    /\ procs' = [procs EXCEPT ![p] = Idle]
    /\ edits' = [edits EXCEPT ![procs[p].event.photo_id] = @ + 1]
    /\ UNCHANGED <<objects, now, nextId, budget, uploaded, deleted>>

----------------------------------------------------------------------------
\* get_photo.lambda_handler: one get_item, so one step.

\* json.dumps of the success body: raises TypeError on a Decimal
\* (no default= is given), which the Exception handler turns into 500.
json_dumps(response) ==
    IF IsDecimal(response.body.metadata.file_size) THEN InternalError ELSE response

get_photo(event, tbl) ==
    IF event.sub = NoSub THEN AuthRequired
    ELSE
    LET user_id == event.sub
        photo_id == event.photo_id
        version_type == IF event.version = NoParam THEN "original" ELSE event.version
    IN  IF version_type \notin {"original", "edited"}
        THEN Error(400, "version must be either original or edited")
        ELSE IF ~HasItem(tbl, photo_id)
        THEN Error(404, "Photo not found")
        ELSE
        LET photo_metadata == get_item(tbl, photo_id)
            s3_key == IF version_type = "original"
                      THEN Get(photo_metadata, "original_s3_key", NoneKey)
                      ELSE Get(photo_metadata, "edited_s3_key", NoneKey)
            bucket == IF version_type = "original"
                      THEN Get(photo_metadata, "original_bucket", None)
                      ELSE Get(photo_metadata, "edited_bucket", None)
            presigned_url ==
                [ClientMethod |-> "get_object", Bucket |-> bucket, Key |-> s3_key,
                 ExpiresIn |-> ExpiresIn]
        IN  IF "user_id" \notin DOMAIN photo_metadata
            THEN AuthRequired
            ELSE IF ~is_owner(photo_metadata, user_id)
            THEN Error(403, "Access denied")
            ELSE IF version_type = "edited" /\ ~has_edited_version(photo_metadata)
            THEN Error(404, "No edited version available")
            ELSE IF s3_key = NoneKey \/ bucket = None
            THEN Error(404, "version not found")
            ELSE json_dumps(Ok(
                    [photo_id |-> photo_id,
                     version_type |-> version_type,
                     download_url |-> presigned_url,
                     expires_in |-> 900,
                     metadata |->
                        [filename |-> Get(photo_metadata, "filename", None),
                         content_type |-> Get(photo_metadata, "content_type", NoneKey),
                         file_size |-> Get(photo_metadata, "file_size", PyNone),
                         created_at |-> Get(photo_metadata, "created_at", -1),
                         updated_at |-> Get(photo_metadata, "updated_at", -1)]]))

GetPhoto(event) ==
    /\ Ready
    /\ resp' = Response("get", event, get_photo(event, table), table)
    /\ UNCHANGED <<table, objects, creds, procs, now, nextId, budget, uploaded, edits, deleted>>

----------------------------------------------------------------------------
\* get_metadata.lambda_handler: one get_item, so one step.

NoEdited == [none |-> TRUE]

get_metadata(event, tbl) ==
    IF event.sub = NoSub THEN AuthRequired
    ELSE
    LET user_id == event.sub
        photo_id == event.photo_id
    IN  IF ~HasItem(tbl, photo_id)
        THEN Error(404, "Photo not found")
        ELSE
        LET photo_metadata == get_item(tbl, photo_id)
        IN  IF "user_id" \notin DOMAIN photo_metadata
            THEN AuthRequired
            ELSE IF ~is_owner(photo_metadata, user_id)
            THEN Error(403, "Access denied")
            ELSE Ok(
                [photo_id |-> photo_metadata["photo_id"],
                 user_id |-> photo_metadata["user_id"],
                 created_at |-> Get(photo_metadata, "created_at", -1),
                 updated_at |-> Get(photo_metadata, "updated_at", -1),
                 status |-> Get(photo_metadata, "status", "unknown"),
                 original |->
                    [filename |-> Get(photo_metadata, "filename", None),
                     content_type |-> Get(photo_metadata, "content_type", NoneKey),
                     file_size |-> int(Get(photo_metadata, "file_size", Decimal(0))),
                     s3_key |-> Get(photo_metadata, "original_s3_key", NoneKey),
                     bucket |-> Get(photo_metadata, "original_bucket", None)],
                 edited |->
                    IF has_edited_version(photo_metadata)
                    THEN [filename |-> Get(photo_metadata, "edited_filename", None),
                          content_type |->
                              Get(photo_metadata, "edited_content_type", NoneKey),
                          file_size |->
                              int(Get(photo_metadata, "edited_file_size", Decimal(0))),
                          s3_key |-> Get(photo_metadata, "edited_s3_key", NoneKey),
                          bucket |-> Get(photo_metadata, "edited_bucket", None),
                          edit_count |->
                              int(Get(photo_metadata, "edit_count", Decimal(1)))]
                    ELSE NoEdited])

GetMetadata(event) ==
    /\ Ready
    /\ resp' = Response("metadata", event, get_metadata(event, table), table)
    /\ UNCHANGED <<table, objects, creds, procs, now, nextId, budget, uploaded, edits, deleted>>

----------------------------------------------------------------------------
\* delete_photo.lambda_handler: get_item, delete_object for the original,
\* delete_object for the edited version, delete_item.

\* Lines 15-42: identity, lookup, ownership.
delete_photo_lookup(event, tbl) ==
    IF event.sub = NoSub THEN [response |-> AuthRequired, proceed |-> FALSE]
    ELSE
    LET user_id == event.sub
        photo_id == event.photo_id
    IN  IF ~HasItem(tbl, photo_id)
        THEN [response |-> Error(404, "Photo not found"), proceed |-> FALSE]
        ELSE
        LET photo_metadata == get_item(tbl, photo_id)
        IN  IF "user_id" \notin DOMAIN photo_metadata
            THEN [response |-> AuthRequired, proceed |-> FALSE]
            ELSE IF ~is_owner(photo_metadata, user_id)
            THEN [response |-> Error(403, "Access denied"), proceed |-> FALSE]
            ELSE [proceed |-> TRUE,
                  locals |-> [pc |-> "delete_original",
                              event |-> event,
                              photo_metadata |-> photo_metadata,
                              deleted_items |-> <<>>,
                              s3_calls |-> <<>>]]

\* s3_client.delete_object(Bucket, Key): removes the object, or raises
delete_object(objs, bucket, key, succeeds) ==
    IF succeeds THEN objs \ {<<bucket, key>>} ELSE objs

\* Lines 44-60: the original's delete_object in its own try/except.
delete_photo_original(l, objs, succeeds) ==
    LET original_s3_key == Get(l.photo_metadata, "original_s3_key", NoneKey)
        original_bucket == Get(l.photo_metadata, "original_bucket", None)
        attempted == original_s3_key # NoneKey /\ original_bucket # None
    IN  [objects |-> IF attempted
                     THEN delete_object(objs, original_bucket, original_s3_key, succeeds)
                     ELSE objs,
         locals |->
            [l EXCEPT !.pc = "delete_edited",
                      !.s3_calls = IF attempted
                                   THEN Append(@, [type |-> "original", ok |-> succeeds])
                                   ELSE @,
                      !.deleted_items =
                          IF attempted /\ succeeds
                          THEN Append(@, [type |-> "original",
                                          bucket |-> original_bucket,
                                          key |-> original_s3_key])
                          ELSE @]]

\* delete_photo_edited that lists the edited asset whether or not its
\* delete_object raised
delete_photo_edited_unchecked(l, objs, succeeds) ==
    LET edited_s3_key == Get(l.photo_metadata, "edited_s3_key", NoneKey)
        bucket == Get(l.photo_metadata, "edited_bucket", None)
        attempted == /\ has_edited_version(l.photo_metadata)
                     /\ edited_s3_key # NoneKey
                     /\ bucket # None
    IN  [objects |-> IF attempted
                     THEN delete_object(objs, bucket, edited_s3_key, succeeds)
                     ELSE objs,
         locals |->
            [l EXCEPT !.pc = "delete_item",
                      !.s3_calls = IF attempted
                                   THEN Append(@, [type |-> "edited", ok |-> succeeds])
                                   ELSE @,
                      !.deleted_items =
                          IF attempted
                          THEN Append(@, [type |-> "edited",
                                          bucket |-> bucket,
                                          key |-> edited_s3_key])
                          ELSE @]]

\* Lines 62-79: the edited version's delete_object in its own try/except.
delete_photo_edited(l, objs, succeeds) ==
    LET edited_s3_key == Get(l.photo_metadata, "edited_s3_key", NoneKey)
        bucket == Get(l.photo_metadata, "edited_bucket", None)
        attempted == /\ has_edited_version(l.photo_metadata)
                     /\ edited_s3_key # NoneKey
                     /\ bucket # None
    IN  [objects |-> IF attempted
                     THEN delete_object(objs, bucket, edited_s3_key, succeeds)
                     ELSE objs,
         locals |->
            [l EXCEPT !.pc = "delete_item",
                      !.s3_calls = IF attempted
                                   THEN Append(@, [type |-> "edited", ok |-> succeeds])
                                   ELSE @,
                      !.deleted_items =
                          IF attempted /\ succeeds
                          THEN Append(@, [type |-> "edited",
                                          bucket |-> bucket,
                                          key |-> edited_s3_key])
                          ELSE @]]

\* Lines 81-92: delete_item and the response.
delete_photo_item(l, tbl) ==
    [table |-> delete_item(tbl, l.event.photo_id),
     response |-> Ok([photo_id |-> l.event.photo_id,
                      message |-> "Photo and all versions deleted successfully",
                      deleted_items |-> l.deleted_items])]

\* The (bucket, key) pairs of cs whose key names photo_id.
AssetsOf(cs, photo_id) == {c \in cs : c[2][3] = photo_id}

\* all_stored: when the invocation began, every put_object URL issued for
\* the photo had been used and its object was in S3
DeletePhotoLookup(p, event) ==
    /\ Ready
    /\ FirstIdle(p)
    /\ LET r == delete_photo_lookup(event, table)
       IN  IF r.proceed
           THEN /\ budget > 0
                /\ procs' = [procs EXCEPT ![p] = [all_stored |->
                                                      AssetsOf(creds, event.photo_id)
                                                          \subseteq objects]
                                                  @@ r.locals]
                /\ budget' = budget - 1
                /\ UNCHANGED resp
           ELSE /\ resp' = Response("delete", event, r.response, table)
                /\ UNCHANGED <<procs, budget>>
    /\ UNCHANGED <<table, objects, creds, now, nextId, uploaded, edits, deleted>>

DeletePhotoOriginal(p, succeeds) ==
    /\ Ready
    /\ procs[p].pc = "delete_original"
    /\ LET r == delete_photo_original(procs[p], objects, succeeds)
       IN  /\ objects' = r.objects
           /\ procs' = [procs EXCEPT ![p] = r.locals]
    /\ UNCHANGED <<table, creds, now, nextId, budget, uploaded, edits, deleted, resp>>

DeletePhotoEdited(p, succeeds) ==
    /\ Ready
    /\ procs[p].pc = "delete_edited"
    /\ LET r == delete_photo_edited(procs[p], objects, succeeds)
       IN  /\ objects' = r.objects
           /\ procs' = [procs EXCEPT ![p] = r.locals]
    /\ UNCHANGED <<table, creds, now, nextId, budget, uploaded, edits, deleted, resp>>

DeletePhotoItem(p) ==
    /\ Ready
    /\ procs[p].pc = "delete_item"
    /\ LET r == delete_photo_item(procs[p], table)
       IN  /\ table' = r.table
           /\ resp' = [locals |-> procs[p]]
                        @@ Response("delete", procs[p].event, r.response, table)
    /\ procs' = [procs EXCEPT ![p] = Idle]
    /\ deleted' = deleted \cup {procs[p].event.photo_id}
    /\ UNCHANGED <<objects, creds, now, nextId, budget, uploaded, edits>>

----------------------------------------------------------------------------
\* list_photos.lambda_handler: one query, so one step.

\* queryStringParameters of list_photos.  limit is a string, held as a
\* sequence of characters; NoLimit: the parameter is absent.
NoLimit == <<"<absent>">>
limit_1 == <<"1">>
limit_2 == <<"2">>
limit_150 == <<"1", "5", "0">>
limit_0 == <<"0">>
limit_minus_1 == <<"-", "1">>
limit_abc == <<"a", "b", "c">>

\* last_evaluated_key is a string: no parameter, a text that is not JSON,
\* the JSON text of a number, or the JSON text of an object.
NoKey == [kind |-> "absent"]
key_not_json == [kind |-> "text"]
key_number == [kind |-> "number"]
JsonObject(value) == [kind |-> "object", value |-> value]
\* the JSON text of {"photo_id": ...}: an object that is not a key of an index
key_partial == JsonObject([photo_id |-> 1])

Digits == <<"0", "1", "2", "3", "4", "5", "6", "7", "8", "9">>
IsDigit(c) == \E j \in DOMAIN Digits : Digits[j] = c
DigitValue(c) == (CHOOSE j \in DOMAIN Digits : Digits[j] = c) - 1

RECURSIVE digits_value(_)
digits_value(s) ==
    IF s = <<>> THEN 0
    ELSE 10 * digits_value(SubSeq(s, 1, Len(s) - 1)) + DigitValue(s[Len(s)])

\* int(str): decimal digits after an optional sign; raises ValueError
\* (ok is false) on anything else
int_str(s) ==
    LET signed == s # <<>> /\ s[1] \in {"-", "+"}
        d == IF signed THEN Tail(s) ELSE s
    IN  IF d = <<>> \/ \E i \in DOMAIN d : ~IsDigit(d[i])
        THEN [ok |-> FALSE]
        ELSE [ok |-> TRUE,
              value |-> IF s[1] = "-" THEN 0 - digits_value(d) ELSE digits_value(d)]

\* min(a, b)
min(a, b) == IF a <= b THEN a ELSE b

\* the page size that has no cap
page_limit_uncapped(limit) ==
    IF limit = NoLimit THEN [ok |-> TRUE, value |-> 50] ELSE int_str(limit)

\* limit = min(int(query_params.get('limit', 50)), 100)
page_limit(limit) ==
    IF limit = NoLimit THEN [ok |-> TRUE, value |-> min(50, 100)]
    ELSE IF int_str(limit).ok
    THEN [ok |-> TRUE, value |-> min(int_str(limit).value, 100)]
    ELSE [ok |-> FALSE]

\* json.loads that raises on every text
json_loads_raises(s) == [ok |-> FALSE]

\* json.loads(last_key): raises (ok is false) on a text that is not JSON
json_loads(s) ==
    IF s.kind = "text" THEN [ok |-> FALSE]
    ELSE IF s.kind = "object" THEN [ok |-> TRUE, is_dict |-> TRUE, value |-> s.value]
    ELSE [ok |-> TRUE, is_dict |-> FALSE]

\* convert_decimals on a dict: the numbers DynamoDB returned become int
convert_decimals(obj) ==
    [k \in DOMAIN obj |-> IF k \in NumberAttrs THEN int(obj[k]) ELSE obj[k]]

\* json.dumps of a dict of str and int values
json_dumps_dict(obj) == JsonObject(obj)

\* The key attributes of an item in an index: the table's key with the
\* index's partition and sort key.
IndexKeyAttrs(index_name) ==
    IF index_name = "UserVersionIndex"
    THEN {"photo_id", "user_id", "version_type"}
    ELSE {"photo_id", "user_id", "created_at"}

\* The items of ids, most recent first (ScanIndexForward=False).
RECURSIVE MostRecentFirst(_, _)
MostRecentFirst(tbl, ids) ==
    IF ids = {} THEN <<>>
    ELSE LET first == CHOOSE p \in ids :
                          \A q \in ids :
                              \/ tbl[q]["created_at"] < tbl[p]["created_at"]
                              \/ tbl[q]["created_at"] = tbl[p]["created_at"] /\ q <= p
         IN  <<first>> \o MostRecentFirst(tbl, ids \ {first})

\* An index read without the condition on user_id
Indexed_any_user(tbl, params) ==
    {p \in DOMAIN tbl :
        /\ IndexKeyAttrs(params.IndexName) \cup {"created_at"} \subseteq DOMAIN tbl[p]
        /\ params.IndexName = "UserVersionIndex"
              => tbl[p]["version_type"] = params.version_type}

\* The items an index holds for a key condition: those that carry the
\* index's key attributes with the values asked for.
Indexed(tbl, params) ==
    {p \in DOMAIN tbl :
        /\ IndexKeyAttrs(params.IndexName) \cup {"created_at"} \subseteq DOMAIN tbl[p]
        /\ tbl[p]["user_id"] = params.user_id
        /\ params.IndexName = "UserVersionIndex"
              => tbl[p]["version_type"] = params.version_type}

\* ExclusiveStartKey is a key of the index inside the key condition.
ValidStartKey(params) ==
    LET k == params.ExclusiveStartKey
    IN  /\ k.is_dict
        /\ DOMAIN k.value = IndexKeyAttrs(params.IndexName)
        /\ k.value["user_id"] = params.user_id
        /\ params.IndexName = "UserVersionIndex"
              => k.value["version_type"] = params.version_type

\* table.query(IndexName, KeyConditionExpression, Limit, ScanIndexForward,
\* ExclusiveStartKey): raises (ok is false) on a Limit below 1 and on a start
\* key that is not a key of the index inside the key condition; otherwise
\* returns up to Limit items after the start key, with LastEvaluatedKey when
\* the Limit stopped it.  at_end_too: the store also returns LastEvaluatedKey
\* when the Limit stopped it on the last item.
query(tbl, params, at_end_too) ==
    IF params.Limit < 1 THEN [ok |-> FALSE]
    ELSE IF "ExclusiveStartKey" \in DOMAIN params /\ ~ValidStartKey(params)
    THEN [ok |-> FALSE]
    ELSE
    LET matching == MostRecentFirst(tbl, Indexed(tbl, params))
        start ==
            IF "ExclusiveStartKey" \in DOMAIN params
            THEN LET photo_id == params.ExclusiveStartKey.value["photo_id"]
                 IN  IF \E i \in DOMAIN matching : matching[i] = photo_id
                     THEN CHOOSE i \in DOMAIN matching : matching[i] = photo_id
                     ELSE 0
            ELSE 0
        n == min(params.Limit, Len(matching) - start)
        page == SubSeq(matching, start + 1, start + n)
        stopped == /\ n = params.Limit
                   /\ (start + n < Len(matching) \/ at_end_too)
        last == get_item(tbl, page[n])
        result == [ok |-> TRUE,
                   Items |-> [i \in 1..n |-> get_item(tbl, page[i])],
                   Count |-> n,
                   ScannedCount |-> n]
    IN  IF stopped
        THEN [LastEvaluatedKey |->
                 [a \in IndexKeyAttrs(params.IndexName) |-> last[a]]] @@ result
        ELSE result

\* Lines 68-87: one entry of 'photos'
photo_summary(item) ==
    [photo_id |-> item["photo_id"],
     filename |-> Get(item, "filename", None),
     version_type |-> Get(item, "version_type", None),
     content_type |-> Get(item, "content_type", NoneKey),
     file_size |-> int(Get(item, "file_size", Decimal(0))),
     created_at |-> Get(item, "created_at", -1),
     updated_at |-> Get(item, "updated_at", -1),
     has_edited_version |-> Get(item, "has_edited_version", FALSE),
     status |-> Get(item, "status", "unknown")]

\* queried: table.query was called, with the parameters in query.
list_photos(event, tbl, at_end_too) ==
    IF event.sub = NoSub THEN [response |-> AuthRequired, queried |-> FALSE]
    ELSE
    LET user_id == event.sub
        version_type == event.version_type
        limit == page_limit(event.limit)
        last_key == event.last_key
        filtered == version_type # NoParam
        key_condition ==
            IF filtered
            THEN [IndexName |-> "UserVersionIndex", user_id |-> user_id,
                  version_type |-> version_type]
            ELSE [IndexName |-> "UserIdIndex", user_id |-> user_id]
    IN  IF ~limit.ok
        THEN [response |-> Error(400, "Invalid parameter"), queried |-> FALSE]
        ELSE IF filtered /\ version_type \notin {"original", "edited"}
        THEN [response |->
                 Error(400, "version_type must be either original or edited"),
              queried |-> FALSE]
        ELSE IF last_key # NoKey /\ ~json_loads(last_key).ok
        THEN [response |-> Error(400, "Invalid pagination token"), queried |-> FALSE]
        ELSE
        LET query_params_db ==
                (IF last_key # NoKey
                 THEN [ExclusiveStartKey |-> json_loads(last_key)]
                 ELSE <<>>)
                @@ [Limit |-> limit.value, ScanIndexForward |-> FALSE]
                @@ key_condition
            response == query(tbl, query_params_db, at_end_too)
            result ==
                [photos |-> [i \in DOMAIN response.Items |->
                                photo_summary(response.Items[i])],
                 count |-> Len(response.Items),
                 scanned_count |-> response.ScannedCount]
        IN  IF ~response.ok
            THEN [response |-> InternalError, queried |-> TRUE,
                  query |-> query_params_db]
            ELSE [response |->
                     IF "LastEvaluatedKey" \in DOMAIN response
                     THEN Ok([last_evaluated_key |->
                                 json_dumps_dict(convert_decimals(response.LastEvaluatedKey)),
                              has_more |-> TRUE] @@ result)
                     ELSE Ok([has_more |-> FALSE] @@ result),
                  queried |-> TRUE,
                  query |-> query_params_db]

\* The photo ids of a page, in order.
PageIds(body) == [i \in DOMAIN body.photos |-> body.photos[i].photo_id]

\* The last response is a page of list_photos that came with a token.
HasToken ==
    /\ resp.op = "list"
    /\ resp.statusCode = 200
    /\ resp.body.has_more

\* A call either starts a listing, or the client that holds a page feeds the
\* page's token into its next call.  resumed: the call continues the listing
\* of the page before it (same user, same filter); earlier: the photo ids of
\* the pages that listing has returned before this one.
ListPhotos(event, at_end_too) ==
    /\ \/ Ready
       \/ HasToken /\ event.last_key = resp.body.last_evaluated_key
    /\ LET r == list_photos(event, table, at_end_too)
           resumes == /\ HasToken
                      /\ event.sub = resp.event.sub
                      /\ event.version_type = resp.event.version_type
           ghost == [resumed |-> resumes,
                     earlier |-> IF resumes
                                 THEN resp.earlier \o PageIds(resp.body)
                                 ELSE <<>>]
       IN  resp' = (IF r.queried THEN [query |-> r.query] ELSE <<>>)
                       @@ ghost @@ Response("list", event, r.response, table)
    /\ UNCHANGED <<table, objects, creds, procs, now, nextId, budget, uploaded, edits, deleted>>

----------------------------------------------------------------------------
\* The environment

\* a client uses a presigned put_object URL it was given
ClientPut(c) ==
    /\ Ready
    /\ c \in creds
    /\ c \notin objects
    /\ objects' = objects \cup {c}
    /\ UNCHANGED <<table, creds, procs, now, nextId, budget, uploaded, edits, deleted, resp>>

\* the response reaches the caller
Return ==
    /\ ~Ready
    /\ resp' = [op |-> "none"]
    /\ UNCHANGED <<table, objects, creds, procs, now, nextId, budget, uploaded, edits, deleted>>

----------------------------------------------------------------------------

Subs == Users \cup {NoSub}

\* Requests of Spec and SpecSeq: requests that pass validation, from either
\* user, on records that one user uploads.
UploadEvents == [sub : {"u1"}, body : {BodyA}]
UpdateEvents == [sub : Users, photo_id : PhotoIds, body : {BodyA, BodyB}]
GetEvents == [sub : Users, photo_id : PhotoIds, version : {NoParam, "original", "edited"}]
IdEvents == [sub : Users, photo_id : PhotoIds]

\* Requests of SpecRequests: every caller, no caller, every body of Bodies,
\* every version.
UploadRequests == [sub : Subs, body : Bodies]
UpdateRequests == [sub : Subs, photo_id : PhotoIds, body : Bodies]
GetRequests == [sub : Subs, photo_id : PhotoIds, version : Versions]
IdRequests == [sub : Subs, photo_id : PhotoIds]
ListRequests ==
    [sub : Subs, version_type : {NoParam, "thumbnail"},
     limit : {NoLimit, limit_abc},
     last_key : {NoKey, key_not_json}]

\* Requests of SpecList: every caller, no caller, every filter, page sizes
\* below, at and above the cap, and every kind of last_evaluated_key.
ListEvents ==
    [sub : Subs, version_type : {NoParam, "original", "edited", "thumbnail"},
     limit : {NoLimit, limit_1, limit_2, limit_150, limit_0, limit_minus_1, limit_abc},
     last_key : {NoKey, key_not_json, key_number, key_partial}]
\* The requests a client that holds a page makes with the page's token.
PageEvents ==
    [sub : Users, version_type : {NoParam, "original"},
     limit : {NoLimit, limit_1, limit_2, limit_0},
     last_key : {NoKey}]

\* The requests of E with the token of the page the client holds.
NextPage(E) ==
    IF HasToken
    THEN {[e EXCEPT !.last_key = resp.body.last_evaluated_key] : e \in E}
    ELSE {}

InitWith(b) ==
    /\ table = <<>>
    /\ objects = {}
    /\ creds = {}
    /\ procs = [p \in Procs |-> Idle]
    /\ now = 0
    /\ nextId = 1
    /\ budget = b
    /\ uploaded = <<>>
    /\ edits = [p \in PhotoIds |-> 0]
    /\ deleted = {}
    /\ resp = [op |-> "none"]

\* Concurrent invocations, valid requests.
Init == InitWith(MaxCalls)

Next ==
    \/ \E e \in UploadEvents : UploadPhoto(e)
    \/ \E p \in Procs, e \in UpdateEvents : UpdatePhotoLookup(p, e)
    \/ \E p \in Procs : UpdatePhotoUpdate(p)
    \/ \E e \in GetEvents : GetPhoto(e)
    \/ \E e \in IdEvents : GetMetadata(e)
    \/ \E p \in Procs, e \in IdEvents : DeletePhotoLookup(p, e)
    \/ \E p \in Procs, b \in BOOLEAN : DeletePhotoOriginal(p, b)
    \/ \E p \in Procs, b \in BOOLEAN : DeletePhotoEdited(p, b)
    \/ \E p \in Procs : DeletePhotoItem(p)
    \/ Return

Spec == Init /\ [][Next]_vars

\* Invocations of update_photo and delete_photo one after another: a single
\* invocation slot.  Clients store objects with the URLs they were given.
InitSeq == InitWith(MaxCalls)

NextSeq ==
    \/ \E e \in UploadEvents : UploadPhoto(e)
    \/ \E e \in UpdateEvents : UpdatePhotoLookup(1, e)
    \/ UpdatePhotoUpdate(1)
    \/ \E e \in GetEvents : GetPhoto(e)
    \/ \E e \in IdEvents : GetMetadata(e)
    \/ \E e \in IdEvents : DeletePhotoLookup(1, e)
    \/ \E b \in BOOLEAN : DeletePhotoOriginal(1, b)
    \/ \E b \in BOOLEAN : DeletePhotoEdited(1, b)
    \/ DeletePhotoItem(1)
    \/ \E c \in creds : ClientPut(c)
    \/ Return

SpecSeq == InitSeq /\ [][NextSeq]_vars

\* Concurrent invocations, every kind of request, fewer writes.
InitRequests == InitWith(MaxRequestCalls)

NextRequests ==
    \/ \E e \in UploadRequests : UploadPhoto(e)
    \/ \E p \in Procs, e \in UpdateRequests : UpdatePhotoLookup(p, e)
    \/ \E p \in Procs : UpdatePhotoUpdate(p)
    \/ \E e \in GetRequests : GetPhoto(e)
    \/ \E e \in IdRequests : GetMetadata(e)
    \/ \E p \in Procs, e \in IdRequests : DeletePhotoLookup(p, e)
    \/ \E p \in Procs, b \in BOOLEAN : DeletePhotoOriginal(p, b)
    \/ \E p \in Procs, b \in BOOLEAN : DeletePhotoEdited(p, b)
    \/ \E p \in Procs : DeletePhotoItem(p)
    \/ \E e \in ListRequests \cup NextPage(ListRequests), b \in BOOLEAN : ListPhotos(e, b)
    \/ \E c \in creds : ClientPut(c)
    \/ Return

SpecRequests == InitRequests /\ [][NextRequests]_vars

\* The table after upload_photo calls by callers, one after the other.
RECURSIVE AfterUploads(_)
AfterUploads(callers) ==
    IF callers = <<>> THEN <<>>
    ELSE LET n == Len(callers)
             r == upload_photo([sub |-> callers[n], body |-> BodyA], n, n - 1)
         IN  put_item(AfterUploads(SubSeq(callers, 1, n - 1)), r.item)

\* Listing: up to MaxListed uploads have been made, by either user in any
\* order, and list_photos calls page through the table.
InitList ==
    \E callers \in UNION {[1..n -> Users] : n \in 0..MaxListed} :
        /\ table = AfterUploads(callers)
        /\ objects = {}
        /\ creds = {<<originals_bucket, table[p]["original_s3_key"]>> : p \in DOMAIN table}
        /\ procs = [p \in Procs |-> Idle]
        /\ now = Len(callers)
        /\ nextId = Len(callers) + 1
        /\ budget = 0
        /\ uploaded = [i \in 1..Len(callers) |-> i]
        /\ edits = [p \in PhotoIds |-> 0]
        /\ deleted = {}
        /\ resp = [op |-> "none"]

NextList ==
    \/ \E e \in ListEvents \cup NextPage(PageEvents), b \in BOOLEAN : ListPhotos(e, b)
    \/ Return

SpecList == InitList /\ [][NextList]_vars

----------------------------------------------------------------------------
\* Properties

\* The request of the last response carries a caller identity.
Identified == resp.event.sub \in Users

\* The record the last response's request names, as stored when the
\* responding step began.
TargetExists == resp.event.photo_id \in DOMAIN resp.before
Target == resp.before[resp.event.photo_id]

OwnedByOther ==
    /\ TargetExists
    /\ "user_id" \in DOMAIN Target
    /\ Target["user_id"] # resp.event.sub

OwnedByCaller ==
    /\ TargetExists
    /\ "user_id" \in DOMAIN Target
    /\ Target["user_id"] = resp.event.sub

\* The bodies of Bodies that satisfy the documented input rules.
ValidBodies == {BodyA, BodyB}

\* The request fails the input validation of its operation.
InvalidInput ==
    \/ resp.op = "update" /\ resp.event.body \notin ValidBodies
    \/ resp.op = "get" /\ resp.event.version \notin {NoParam, "original", "edited"}

C2_CounterCountsEdits ==
    \A photo_id \in DOMAIN table :
        IF edits[photo_id] = 0
        THEN "edit_count" \notin DOMAIN table[photo_id]
        ELSE /\ "edit_count" \in DOMAIN table[photo_id]
             /\ table[photo_id]["edit_count"] = edits[photo_id]

C2_Witness ==
    \E photo_id \in DOMAIN table :
        /\ edits[photo_id] = 3
        /\ table[photo_id]["edit_count"] = 3

\* C3 (as claimed): under any interleaving of update_photo calls, no step
\* lowers the stored edit_count of a record.
C3_CounterNeverDecreases ==
    [][\A photo_id \in DOMAIN table \cap DOMAIN table' :
          Get(table'[photo_id], "edit_count", 0) >= Get(table[photo_id], "edit_count", 0)]_vars

\* C4 (as claimed): once delete_photo has returned 200 for an identifier,
\* every get_metadata call for it by an identified caller returns 404.
C4_DeletedStaysNotFound ==
    (resp.op = "metadata" /\ Identified /\ resp.event.photo_id \in deleted)
        => resp.statusCode = 404

\* The deleted_items list the documentation describes, from the record the
\* delete_photo call read and the outcome of each delete_object call it made:
\* the original, then the edited version, each only if its delete succeeded.
Succeeded(calls, type) == \E i \in DOMAIN calls : calls[i].type = type /\ calls[i].ok

ExpectedDeleted(item, calls) ==
    (IF Succeeded(calls, "original")
     THEN <<[type |-> "original", bucket |-> item["original_bucket"],
             key |-> item["original_s3_key"]]>>
     ELSE <<>>)
    \o
    (IF Succeeded(calls, "edited")
     THEN <<[type |-> "edited", bucket |-> item["edited_bucket"],
             key |-> item["edited_s3_key"]]>>
     ELSE <<>>)

\* The delete_object calls a delete_photo call owes to the record it read:
\* one for the original when its location is recorded, one for the edited
\* version when the edited-flag is set.
OwedCalls(item) ==
    (IF "original_s3_key" \in DOMAIN item THEN <<"original">> ELSE <<>>)
    \o (IF item["has_edited_version"] THEN <<"edited">> ELSE <<>>)

\* C5: a delete_photo call by the owner of an existing record goes through
\* with its deletes and answers 200 with the record removed, whatever the
\* outcome of its delete_object calls, and deleted_items lists exactly the
\* assets whose delete_object succeeded, original before edited.
C5_DeleteBestEffort ==
    (resp.op = "delete" /\ Identified)
        => /\ OwnedByCaller => "locals" \in DOMAIN resp
           /\ "locals" \in DOMAIN resp =>
              /\ resp.locals.photo_metadata["user_id"] = resp.event.sub
              /\ resp.statusCode = 200
              /\ resp.event.photo_id \notin DOMAIN table
              /\ [i \in DOMAIN resp.locals.s3_calls |-> resp.locals.s3_calls[i].type]
                    = OwedCalls(resp.locals.photo_metadata)
              /\ resp.body.deleted_items
                    = ExpectedDeleted(resp.locals.photo_metadata, resp.locals.s3_calls)

C5_Witness ==
    /\ resp.op = "delete"
    /\ resp.statusCode = 200
    /\ Len(resp.body.deleted_items) = 2
    /\ resp.body.deleted_items[1].type = "original"
    /\ resp.body.deleted_items[2].type = "edited"

\* C6: an upload_photo call with a caller identity and a valid body answers
\* 200 and adds exactly one record, under an identifier no other upload_photo
\* call returned, owned by the caller, pending_upload, not edited, created_at
\* equal to updated_at; the response carries that identifier, a put_object
\* URL on the record's original key that expires in 900 seconds, and the key.
C6_UploadCreatesRecord ==
    (resp.op = "upload" /\ Identified /\ resp.event.body \in ValidBodies)
        => /\ resp.statusCode = 200
           /\ LET photo_id == resp.body.photo_id
              IN  /\ photo_id \notin DOMAIN resp.before
                  /\ DOMAIN table = DOMAIN resp.before \cup {photo_id}
                  /\ \A other \in DOMAIN resp.before : table[other] = resp.before[other]
                  /\ \A i, j \in DOMAIN uploaded : uploaded[i] = uploaded[j] => i = j
                  /\ uploaded[Len(uploaded)] = photo_id
                  /\ table[photo_id]["photo_id"] = photo_id
                  /\ table[photo_id]["user_id"] = resp.event.sub
                  /\ table[photo_id]["status"] = "pending_upload"
                  /\ table[photo_id]["has_edited_version"] = FALSE
                  /\ table[photo_id]["created_at"] = table[photo_id]["updated_at"]
                  /\ resp.body.expires_in = 900
                  /\ resp.body.upload_url.ExpiresIn = 900
                  /\ resp.body.upload_url.ClientMethod = "put_object"
                  /\ resp.body.upload_url.Bucket = table[photo_id]["original_bucket"]
                  /\ resp.body.upload_url.Key = table[photo_id]["original_s3_key"]
                  /\ resp.body.s3_key = table[photo_id]["original_s3_key"]

C6_Witness ==
    /\ resp.op = "upload"
    /\ resp.statusCode = 200
    /\ Len(uploaded) = 2
    /\ Cardinality(DOMAIN table) = 2

\* The declared size of the last request's body, an absent one counting as 0.
DeclaredSize == IF "file_size" \in DOMAIN resp.event.body THEN resp.event.body.file_size ELSE 0
FilenameGiven == "filename" \in DOMAIN resp.event.body /\ resp.event.body.filename # ""

\* C7: upload_photo and update_photo answer a request that names a file with
\* the 400 "File size must be between 5MB and 20MB" exactly when the declared
\* size is below 5,242,880 or above 20,971,520, an absent size counting as 0.
C7_SizeBand ==
    (resp.op \in {"upload", "update"} /\ Identified /\ FilenameGiven)
        => ((resp.statusCode = 400
                /\ resp.body.error = "File size must be between 5MB and 20MB")
            <=> (DeclaredSize < 5242880 \/ DeclaredSize > 20971520))

C7_Witness ==
    /\ resp.op = "update"
    /\ Identified
    /\ DeclaredSize = 20971520
    /\ resp.statusCode = 200

\* The spellings of image/jpeg and image/jpg among the request bodies.
JpegSpellings == {image_jpeg, image_jpg, IMAGE_JPG, Image_Jpeg}

C9_NoEditedVersion ==
    (/\ resp.op = "get"
     /\ Identified
     /\ OwnedByCaller
     /\ resp.event.version = "edited"
     /\ ~Target["has_edited_version"])
        => /\ resp.statusCode = 404
           /\ resp.body.error = "No edited version available"
           /\ "download_url" \notin DOMAIN resp.body

C9_Witness ==
    /\ resp.op = "get"
    /\ Identified
    /\ OwnedByCaller
    /\ resp.event.version = "edited"
    /\ ~Target["has_edited_version"]
    /\ resp.statusCode = 404

\* C10 (as claimed): get_photo by the owner answers 200 with a download URL;
\* with version=edited on an edited record the URL is on the edited bucket
\* and key that update_photo recorded, not on the original's; with
\* version=original or no version it is on the original's bucket and key.
C10_CredentialScope ==
    (/\ resp.op = "get"
     /\ Identified
     /\ OwnedByCaller
     /\ resp.event.version \in {NoParam, "original", "edited"}
     /\ resp.event.version = "edited" => Target["has_edited_version"])
        => /\ resp.statusCode = 200
           /\ IF resp.event.version = "edited"
              THEN /\ resp.body.download_url.Bucket = Target["edited_bucket"]
                   /\ resp.body.download_url.Key = Target["edited_s3_key"]
                   /\ resp.body.download_url.Key # Target["original_s3_key"]
              ELSE /\ resp.body.download_url.Bucket = Target["original_bucket"]
                   /\ resp.body.download_url.Key = Target["original_s3_key"]

\* A step that answers a request: the handlers answer from the state in which
\* no response is pending, list_photos also from a page the client holds.
RespondingStep == resp'.op # "none" /\ resp.op \in {"none", "list"}

\* C11: a step of any handler that answers 401, 400, 404 or 403 leaves the
\* table and the object store exactly as they were: no item is created,
\* updated or removed and no object is deleted.
C11_ErrorsLeaveStores ==
    [][(RespondingStep /\ resp'.statusCode \in {400, 401, 403, 404})
          => /\ table' = table
             /\ objects' = objects
             /\ resp'.before = table]_vars

C11_Witness ==
    /\ resp.op = "upload"
    /\ resp.statusCode = 400
    /\ resp.event.body = BodyBad
    /\ DOMAIN table # {}
    /\ table = resp.before

\* C12: a step of any of the six handlers that answers a request without a
\* caller identity answers 401 "Authentication required", whatever else the
\* request carries, starts no invocation, makes no query and leaves the table
\* and the object store as they were.
C12_NoIdentity ==
    [][(RespondingStep /\ resp'.event.sub = NoSub)
          => /\ resp'.statusCode = 401
             /\ resp'.body = [error |-> "Authentication required"]
             /\ "query" \notin DOMAIN resp'
             /\ "locals" \notin DOMAIN resp'
             /\ procs' = procs
             /\ table' = table
             /\ objects' = objects]_vars

C12_Witness ==
    /\ resp.op = "list"
    /\ resp.event.sub = NoSub
    /\ resp.event.limit = limit_abc
    /\ resp.event.last_key = key_not_json
    /\ resp.statusCode = 401
    /\ DOMAIN table # {}

\* The page size a list_photos request asks for, 50 when it asks for none.
RequestedSize ==
    CASE resp.event.limit = NoLimit -> 50
      [] resp.event.limit = limit_1 -> 1
      [] resp.event.limit = limit_2 -> 2
      [] resp.event.limit = limit_150 -> 150
      [] resp.event.limit = limit_0 -> 0
      [] resp.event.limit = limit_minus_1 -> 0 - 1

\* C13: every query list_photos makes carries a Limit of at most 100: 50
\* when no page size is requested, otherwise the smaller of the requested
\* size and 100; a page never holds more items than that Limit, and count is
\* the number of items in the page.
C13_PageSize ==
    (resp.op = "list" /\ "query" \in DOMAIN resp)
        => /\ resp.event.limit # limit_abc
           /\ resp.query.Limit = (IF RequestedSize > 100 THEN 100 ELSE RequestedSize)
           /\ resp.query.Limit <= 100
           /\ resp.statusCode = 200
                 => /\ resp.body.count <= resp.query.Limit
                    /\ resp.body.count = Len(resp.body.photos)

C13_Witness ==
    /\ resp.op = "list"
    /\ resp.statusCode = 200
    /\ resp.event.limit = limit_150
    /\ resp.query.Limit = 100
    /\ resp.body.count = 3

\* The records of tbl that a listing for sub with filter version_type covers.
Matching(tbl, sub, version_type) ==
    {p \in DOMAIN tbl :
        /\ "user_id" \in DOMAIN tbl[p]
        /\ tbl[p]["user_id"] = sub
        /\ version_type # NoParam => tbl[p]["version_type"] = version_type}

\* The limit values that ask for a page of one item or more, or for none.
PageSizes == {NoLimit, limit_1, limit_2, limit_150}

\* C14: with the table unchanged between calls, a list_photos call that is
\* given the token of the page before it, for the same user and filter,
\* and a page size of 1 or more, answers 200 with a page that repeats no photo_id of the earlier pages; a
\* token comes exactly with has_more true; and when has_more is false the
\* pages together hold every matching record of the caller exactly once.
C14_Pagination ==
    (resp.op = "list" /\ Identified)
        => /\ (resp.resumed /\ resp.event.limit \in PageSizes) => resp.statusCode = 200
           /\ resp.statusCode = 200 =>
              LET all == resp.earlier \o PageIds(resp.body)
              IN  /\ resp.body.has_more <=> "last_evaluated_key" \in DOMAIN resp.body
                  /\ \A i, j \in DOMAIN all : all[i] = all[j] => i = j
                  /\ ~resp.body.has_more
                        => {all[i] : i \in DOMAIN all}
                              = Matching(resp.before, resp.event.sub,
                                         resp.event.version_type)

C14_Witness ==
    /\ resp.op = "list"
    /\ resp.resumed
    /\ resp.statusCode = 200
    /\ ~resp.body.has_more
    /\ Len(resp.earlier) = 2
    /\ Len(resp.body.photos) = 1

\* C15 (as claimed): list_photos answers a request whose last_evaluated_key
\* is not a token it issued (a text that is not JSON, or JSON that is not a
\* key of the index) with 400, the rest of the request being valid.
C15_MalformedToken ==
    (/\ resp.op = "list"
     /\ Identified
     /\ resp.event.limit \in PageSizes
     /\ resp.event.version_type \in {NoParam, "original", "edited"}
     /\ resp.event.last_key \in {key_not_json, key_number, key_partial})
        => resp.statusCode = 400

\* C16 (as claimed): get_photo by the owner of a record that upload_photo
\* created, with version=original or no version, answers 200 with a
\* get_object URL on the original, expires_in 900, the version, and the
\* record's filename, content_type, file_size and timestamps.
C16_RetrieverSuccess ==
    (/\ resp.op = "get"
     /\ Identified
     /\ OwnedByCaller
     /\ "original_s3_key" \in DOMAIN Target
     /\ resp.event.version \in {NoParam, "original"})
        => /\ resp.statusCode = 200
           /\ resp.body.download_url.ClientMethod = "get_object"
           /\ resp.body.download_url.Key = Target["original_s3_key"]
           /\ resp.body.expires_in = 900
           /\ resp.body.version_type = "original"
           /\ resp.body.metadata.filename = Target["filename"]
           /\ resp.body.metadata.content_type = Target["content_type"]
           /\ resp.body.metadata.created_at = Target["created_at"]
           /\ resp.body.metadata.updated_at = Target["updated_at"]

\* The attributes update_photo writes for the edited asset.
EditedDescriptor ==
    {"edited_s3_key", "edited_bucket", "edited_filename", "edited_content_type",
     "edited_file_size", "edit_count"}

\* C17: in every state, under any interleaving, a stored record whose
\* has_edited_version is true carries every attribute of the edited
\* descriptor, and one whose has_edited_version is false carries none.
C17_EditedDescriptor ==
    \A p \in DOMAIN table :
        /\ "has_edited_version" \in DOMAIN table[p]
        /\ IF table[p]["has_edited_version"]
           THEN EditedDescriptor \subseteq DOMAIN table[p]
           ELSE EditedDescriptor \cap DOMAIN table[p] = {}

C17_Witness ==
    \E p, q \in DOMAIN table :
        /\ table[p]["has_edited_version"]
        /\ table[p]["edit_count"] = 2
        /\ ~table[q]["has_edited_version"]

\* The attributes upload_photo writes that describe the record and its
\* original asset.
CreationAttrs ==
    {"photo_id", "user_id", "created_at", "status", "original_s3_key",
     "original_bucket", "filename", "content_type", "file_size"}

\* C18: no step changes the identifier, owner, creation timestamp, status or
\* original descriptor of a record that stays in the table; the only step
\* that changes a stored record is the update_item of an update_photo call on
\* that record, and it sets updated_at to the timestamp that call read.
C18_EditorFrame ==
    [][\A p \in DOMAIN table \cap DOMAIN table' :
          /\ \A a \in CreationAttrs :
                /\ a \in DOMAIN table[p] <=> a \in DOMAIN table'[p]
                /\ a \in DOMAIN table[p] => table'[p][a] = table[p][a]
          /\ table'[p] # table[p]
                => /\ resp'.op = "update"
                   /\ resp'.statusCode = 200
                   /\ resp'.event.photo_id = p
                   /\ table'[p]["updated_at"] = resp'.locals.timestamp
                   /\ resp'.locals.timestamp < now]_vars

C18_Witness ==
    /\ resp.op = "update"
    /\ resp.statusCode = 200
    /\ resp.event.photo_id \in DOMAIN table
    /\ resp.event.photo_id \in DOMAIN resp.before
    /\ table[resp.event.photo_id]["user_id"] = resp.event.sub
    /\ table[resp.event.photo_id]["updated_at"] = resp.locals.timestamp
    /\ table[resp.event.photo_id]["updated_at"] > resp.before[resp.event.photo_id]["updated_at"]
    /\ table[resp.event.photo_id]["created_at"] = resp.before[resp.event.photo_id]["created_at"]

\* C19 (as claimed): when delete_photo answers 200 and each of its
\* delete_object calls succeeded, and every put_object URL issued for the
\* photo had been used before the call began, the call deleted every object
\* that was stored under a key of the photo, so that none remains in S3.
C19_NoAssetRemains ==
    (/\ resp.op = "delete"
     /\ resp.statusCode = 200
     /\ \A i \in DOMAIN resp.locals.s3_calls : resp.locals.s3_calls[i].ok
     /\ resp.locals.all_stored)
        => \A o \in AssetsOf(creds, resp.event.photo_id) :
               \E i \in DOMAIN resp.body.deleted_items :
                   o = <<resp.body.deleted_items[i].bucket, resp.body.deleted_items[i].key>>

\* C20 (as claimed): in every state, under any interleaving, every stored
\* record carries the owner, the creation timestamp, the status and the
\* original asset's location that upload_photo wrote.
C20_RecordsComplete ==
    \A p \in DOMAIN table :
        {"user_id", "created_at", "status", "original_s3_key", "original_bucket"}
            \subseteq DOMAIN table[p]

\* The records of tbl that belong to a user other than sub.
OthersRecords(tbl, sub) ==
    {p \in DOMAIN tbl : "user_id" \in DOMAIN tbl[p] /\ tbl[p]["user_id"] # sub}

\* C21: whatever an identified caller asks, the step that answers leaves
\* every record of every other user as it was; a delete_photo call reads and
\* deletes only a record and assets of its caller; a request that names
\* another user's record is answered with an error body and nothing else; an
\* upload's key lies under its caller; and every item list_photos returns
\* belongs to the caller.
C21_UserIsolation ==
    (resp.op # "none" /\ Identified)
        => /\ \A p \in OthersRecords(resp.before, resp.event.sub) :
                 p \in DOMAIN table /\ table[p] = resp.before[p]
           /\ (resp.op \in {"update", "delete"} /\ "locals" \in DOMAIN resp)
                 => resp.body.photo_id \notin OthersRecords(resp.before, resp.event.sub)
           /\ (resp.op = "delete" /\ "locals" \in DOMAIN resp)
                 => /\ resp.locals.photo_metadata["user_id"] = resp.event.sub
                    /\ \A i \in DOMAIN resp.body.deleted_items :
                          resp.body.deleted_items[i].key[1] = resp.event.sub
           /\ (resp.op \in {"update", "get", "metadata", "delete"} /\ OwnedByOther)
                 => /\ resp.statusCode \in {400, 403}
                    /\ DOMAIN resp.body = {"error"}
           /\ (resp.op \in {"upload", "update"} /\ resp.statusCode = 200)
                 => /\ resp.body.s3_key[1] = resp.event.sub
                    /\ resp.body.upload_url.Key[1] = resp.event.sub
           /\ (resp.op = "list" /\ resp.statusCode = 200)
                 => \A i \in DOMAIN resp.body.photos :
                        resp.before[resp.body.photos[i].photo_id]["user_id"]
                            = resp.event.sub

C21_Witness ==
    /\ resp.op = "list"
    /\ resp.statusCode = 200
    /\ resp.body.count = 1
    /\ OthersRecords(table, resp.event.sub) # {}

\* The edited descriptor that one update_photo call by sub on photo_id with
\* this body writes, updated_at aside.
DescriptorOf(sub, photo_id, body) ==
    [edited_s3_key |-> <<sub, "edited", photo_id, body.filename>>,
     edited_bucket |-> "EDITED_BUCKET",
     edited_filename |-> body.filename,
     edited_content_type |->
        IF "content_type" \in DOMAIN body THEN body.content_type ELSE image_jpeg,
     edited_file_size |-> body.file_size]

\* The edited descriptor a record carries.
StoredDescriptor(item) ==
    [a \in {"edited_s3_key", "edited_bucket", "edited_filename",
            "edited_content_type", "edited_file_size"} |-> item[a]]

\* C22: under any interleaving of update_photo calls, the edited key, bucket,
\* filename, content type and size of every edited record are, in every
\* state, those of one single valid request; and when an update_photo call
\* has answered, they and updated_at are those of that call, the stored key
\* being the key in its response.
C22_DescriptorOfOneCall ==
    /\ \A p \in DOMAIN table :
          table[p]["has_edited_version"]
              => \E sub \in Users, body \in ValidBodies :
                     StoredDescriptor(table[p]) = DescriptorOf(sub, p, body)
    /\ (resp.op = "update" /\ resp.statusCode = 200)
          => LET item == table[resp.event.photo_id]
             IN  /\ StoredDescriptor(item)
                       = DescriptorOf(resp.event.sub, resp.event.photo_id, resp.event.body)
                 /\ item["updated_at"] = resp.locals.timestamp
                 /\ item["edited_s3_key"] = resp.body.s3_key
                 /\ item["edited_s3_key"] = resp.body.upload_url.Key
                 /\ item["edited_bucket"] = resp.body.upload_url.Bucket

\* Two update_photo calls on one record ran concurrently (both read it before
\* either wrote) with different bodies, and the second has answered.
C22_Witness ==
    /\ resp.op = "update"
    /\ resp.statusCode = 200
    /\ resp.event.body = BodyB
    /\ resp.locals.previous_edited_key = NoneKey
    /\ resp.event.photo_id \in DOMAIN resp.before
    /\ "edited_filename" \in DOMAIN resp.before[resp.event.photo_id]
    /\ resp.before[resp.event.photo_id]["edited_filename"] = "a.jpg"
    /\ table[resp.event.photo_id]["edited_filename"] = "b.jpg"

\* C23 (as claimed): in every state, under any interleaving, every stored
\* record carries version_type "original".
C23_VersionTypeOriginal ==
    \A p \in DOMAIN table :
        /\ "version_type" \in DOMAIN table[p]
        /\ table[p]["version_type"] = "original"

====
